---- MODULE Spec2Model ----
(***************************************************************************)
(* A model of the OLX car-cover scraper (src/main.py, class                *)
(* OLXCarCoverScraper).                                                    *)
(*                                                                         *)
(* Python strings are sequences of one-character strings; Python None is   *)
(* the value None below, which is no string of characters.  The pure       *)
(* methods (extract_price, is_car_cover_listing, extract_listing_data on a *)
(* static node, extract_from_page_source) are operators computed the way   *)
(* the code computes them; scrape_listings is a state machine with one     *)
(* step per call it makes to the browser.                                  *)
(***************************************************************************)
EXTENDS Integers, Sequences, FiniteSets, TLC

----------------------------------------------------------------------------
(* Python values *)

\* Python None: a one-element sequence whose element is not a character.
None == <<"None">>

\* The sentinel 'N/A'.
NA == <<"N", "/", "A">>

\* Python truthiness of a str-or-None value: None and '' are falsy.
Truthy(v) == v # None /\ v # <<>>

\* The currency sign U+20B9, one character.
Rupee == "Rs"

\* Characters matched by \s, and stripped by str.strip().
Whitespace == {" ", "\n", "\t"}

\* Characters matched by \d.
Digits == {"0", "1", "2", "3", "4", "5", "6", "7", "8", "9"}

UpperCase == <<"A", "B", "C", "D", "E", "F", "G", "H", "I", "J", "K", "L", "M",
               "N", "O", "P", "Q", "R", "S", "T", "U", "V", "W", "X", "Y", "Z">>

LowerCase == <<"a", "b", "c", "d", "e", "f", "g", "h", "i", "j", "k", "l", "m",
               "n", "o", "p", "q", "r", "s", "t", "u", "v", "w", "x", "y", "z">>

\* str.lower() of one character.
LowerChar(c) ==
    IF \E i \in 1..Len(UpperCase) : UpperCase[i] = c
    THEN LowerCase[CHOOSE i \in 1..Len(UpperCase) : UpperCase[i] = c]
    ELSE c

\* str.lower().
lower(s) == [i \in 1..Len(s) |-> LowerChar(s[i])]

RECURSIVE lstrip(_)
lstrip(s) ==
    IF s # <<>> /\ Head(s) \in Whitespace THEN lstrip(Tail(s)) ELSE s

RECURSIVE rstrip(_)
rstrip(s) ==
    IF s # <<>> /\ s[Len(s)] \in Whitespace
    THEN rstrip(SubSeq(s, 1, Len(s) - 1))
    ELSE s

\* str.strip().
strip(s) == rstrip(lstrip(s))

\* Python slice s[a:b] with 0 <= a, b <= len(s) (0-based, b exclusive).
Slice(s, a, b) == SubSeq(s, a + 1, b)

\* The least element of a non-empty set of integers.
SetMin(S) == CHOOSE x \in S : \A y \in S : x <= y

\* Python `kw in s` for strings: kw occurs at some start position of s.
In(kw, s) ==
    \E i \in 1..(Len(s) - Len(kw) + 1) : SubSeq(s, i, i + Len(kw) - 1) = kw

\* Python any(pred(x) for x in xs) over a list, left to right.
RECURSIVE AnyIn(_, _)
AnyIn(kws, s) ==
    IF kws = <<>> THEN FALSE
    ELSE IF In(Head(kws), s) THEN TRUE
    ELSE AnyIn(Tail(kws), s)

\* ''.join(list of strings).
RECURSIVE Join(_)
Join(xs) == IF xs = <<>> THEN <<>> ELSE Head(xs) \o Join(Tail(xs))

\* First index >= i of s whose character is not in class (Len(s)+1 if none):
\* where a greedy class* starting at i stops.
SkipWhile(s, i, class) ==
    SetMin({j \in i..(Len(s) + 1) : j > Len(s) \/ s[j] \notin class})

\* First index >= i of s whose character is in stop (Len(s)+1 if none):
\* where a greedy [^stop]* starting at i stops.
SkipUntil(s, i, stop) ==
    SetMin({j \in i..(Len(s) + 1) : j > Len(s) \/ s[j] \in stop})

----------------------------------------------------------------------------
(* extract_price *)

\* re.sub(r'[Rs,\s]', '', text): delete the currency sign, commas, whitespace.
re_sub_price(text) ==
    SelectSeq(text, LAMBDA c : c # Rupee /\ c # "," /\ c \notin Whitespace)

\* re.findall(r'\d+', s): the maximal digit runs of s, left to right.
RECURSIVE findall_digits(_, _)
findall_digits(s, i) ==
    LET starts == {j \in i..Len(s) : s[j] \in Digits}
    IN IF starts = {} THEN <<>>
       ELSE LET b == SetMin(starts)
                e == SkipWhile(s, b, Digits)
            IN <<SubSeq(s, b, e - 1)>> \o findall_digits(s, e)

extract_price(price_text) ==
    IF ~Truthy(price_text) THEN None
    ELSE LET price_clean == re_sub_price(strip(price_text))
             numbers == findall_digits(price_clean, 1)
         IN IF numbers # <<>> THEN Join(numbers) ELSE None

----------------------------------------------------------------------------
(* is_car_cover_listing *)

car_cover_keywords ==
    << <<"c","a","r"," ","c","o","v","e","r">>,
       <<"b","o","d","y"," ","c","o","v","e","r">>,
       <<"s","e","a","t"," ","c","o","v","e","r">>,
       <<"w","h","e","e","l"," ","c","o","v","e","r">>,
       <<"b","r","a","k","e"," ","c","o","v","e","r">>,
       <<"c","a","r"," ","m","a","t">> >>

exclude_keywords ==
    << <<"b","h","k">>,
       <<"f","l","a","t">>,
       <<"a","p","a","r","t","m","e","n","t">>,
       <<"p","a","r","k","i","n","g">>,
       <<"r","e","n","t">>,
       <<"s","a","l","e">>,
       <<"s","q","f","t">>,
       <<"b","a","t","h","r","o","o","m">>,
       <<"b","e","d","r","o","o","m">> >>

\* listing_data.get('title', ''): the record's title, '' when the key is absent.
GetTitle(listing_data) ==
    IF "title" \in DOMAIN listing_data THEN listing_data.title ELSE <<>>

\* is_car_cover_listing matching the keywords against the title as written.
is_car_cover_listing_CaseSensitive(listing_data) ==
    LET title == GetTitle(listing_data)
        has_car_cover == AnyIn(car_cover_keywords, title)
        has_property == AnyIn(exclude_keywords, title)
    IN has_car_cover /\ ~has_property

is_car_cover_listing(listing_data) ==
    LET title == lower(GetTitle(listing_data))
        has_car_cover == AnyIn(car_cover_keywords, title)
        has_property == AnyIn(exclude_keywords, title)
    IN has_car_cover /\ ~has_property

----------------------------------------------------------------------------
(* extract_listing_data *)

title_selectors ==
    <<"[data-aut-id='itemTitle']", "h2", "h3", ".rui-35953", "a[href*='/item/']">>

price_selectors ==
    <<"[data-aut-id='itemPrice']", ".rui-ANJaG", "span[class*='price']",
      "span[class*='amount']">>

location_selectors ==
    <<"[data-aut-id='item-location']", ".rui-1Wks1", "span[class*='location']",
      "span[class*='place']">>

date_selectors ==
    <<"[data-aut-id='item-date']", "span[class*='date']", "span[class*='time']">>

url_selector == "a[href*='/item/']"

Range(f) == {f[i] : i \in DOMAIN f}

AllSelectors ==
    Range(title_selectors) \cup Range(price_selectors)
        \cup Range(location_selectors) \cup Range(date_selectors) \cup {url_selector}

\* What listing_element.find_element(By.CSS_SELECTOR, sel) does on a node:
\* raises NoSuchElementException (kind "none"), raises another WebDriver
\* exception such as StaleElementReferenceException (kind "stale"), or returns
\* the first matching descendant, whose .text is text and whose href is href.
NoSuch == [kind |-> "none", text |-> <<>>, href |-> <<>>]

Stale == [kind |-> "stale", text |-> <<>>, href |-> <<>>]

Elem(text, href) == [kind |-> "elem", text |-> text, href |-> href]

\* A listing subtree in which no selector matches anything.
EmptyNode == [s \in AllSelectors |-> NoSuch]

\* The field stored as found, without the sentinel.
OrNA_Identity(value) == value

\* `value or 'N/A'`.
OrNA(value) == IF Truthy(value) THEN value ELSE NA

\* The selector loop taking the text of the first element found, empty or not.
RECURSIVE text_chain_FirstMatch(_, _, _, _)
text_chain_FirstMatch(node, selectors, i, cur) ==
    IF i > Len(selectors) THEN [value |-> cur, fault |-> FALSE]
    ELSE LET found == node[selectors[i]]
         IN CASE found.kind = "stale" -> [value |-> cur, fault |-> TRUE]
              [] found.kind = "none" ->
                   text_chain_FirstMatch(node, selectors, i + 1, cur)
              [] OTHER -> [value |-> strip(found.text), fault |-> FALSE]

\* The selector loop of title, location and date, from selector i on with
\* the loop variable holding cur: [value, fault], fault when a call raised
\* something other than NoSuchElementException.
RECURSIVE text_chain(_, _, _, _)
text_chain(node, selectors, i, cur) ==
    IF i > Len(selectors) THEN [value |-> cur, fault |-> FALSE]
    ELSE LET found == node[selectors[i]]
         IN CASE found.kind = "stale" -> [value |-> cur, fault |-> TRUE]
              [] found.kind = "none" -> text_chain(node, selectors, i + 1, cur)
              [] OTHER ->
                   LET text == strip(found.text)
                   IN IF Truthy(text)
                      THEN [value |-> text, fault |-> FALSE]
                      ELSE text_chain(node, selectors, i + 1, text)

\* The selector loop of price.
RECURSIVE price_chain(_, _, _, _)
price_chain(node, selectors, i, cur) ==
    IF i > Len(selectors) THEN [value |-> cur, fault |-> FALSE]
    ELSE LET found == node[selectors[i]]
         IN CASE found.kind = "stale" -> [value |-> cur, fault |-> TRUE]
              [] found.kind = "none" -> price_chain(node, selectors, i + 1, cur)
              [] OTHER ->
                   LET price_text == strip(found.text)
                       price == extract_price(price_text)
                   IN IF Truthy(price)
                      THEN [value |-> price, fault |-> FALSE]
                      ELSE price_chain(node, selectors, i + 1, price)

\* The url lookup: the href attribute of the anchor, 'N/A' when there is none.
url_lookup(node) ==
    LET found == node[url_selector]
    IN CASE found.kind = "stale" -> [value |-> None, fault |-> TRUE]
         [] found.kind = "none" -> [value |-> NA, fault |-> FALSE]
         [] OTHER -> [value |-> found.href, fault |-> FALSE]

\* Python None where a dict is expected.
NoneRecord == [none |-> TRUE]

\* extract_listing_data(listing_element): the record, or None when a call on
\* the node raised (the except Exception of lines 190-192).
extract_listing_data(node) ==
    LET title == text_chain(node, title_selectors, 1, None)
        price == price_chain(node, price_selectors, 1, None)
        location == text_chain(node, location_selectors, 1, None)
        date == text_chain(node, date_selectors, 1, None)
        url == url_lookup(node)
    IN IF title.fault \/ price.fault \/ location.fault \/ date.fault \/ url.fault
       THEN NoneRecord
       ELSE [title |-> OrNA(title.value),
             price |-> OrNA(price.value),
             location |-> OrNA(location.value),
             date |-> OrNA(date.value),
             url |-> url.value]

----------------------------------------------------------------------------
(* extract_from_page_source *)

cover == <<"c", "o", "v", "e", "r">>

\* The first words of the alternatives of the price pattern's keyword group.
price_words == << <<"c","a","r">>, <<"s","e","a","t">>, <<"b","o","d","y">> >>

\* The first words of the alternatives of the title pattern.
title_words ==
    << <<"c","a","r">>, <<"s","e","a","t">>, <<"b","o","d","y">>,
       <<"w","h","e","e","l">> >>

\* Characters the context window takes on each side of a price match.
ContextWindow == 200

\* Literal w matches at index p of s under re.IGNORECASE.
WordAt(s, p, w) ==
    /\ p >= 1
    /\ p + Len(w) - 1 <= Len(s)
    /\ lower(SubSeq(s, p, p + Len(w) - 1)) = w

\* w\s*cover at index p: the index after the match, 0 when it does not match.
WordCoverAt(s, p, w) ==
    IF ~WordAt(s, p, w) THEN 0
    ELSE LET q == SkipWhile(s, p + Len(w), Whitespace)
         IN IF WordAt(s, q, cover) THEN q + Len(cover) ELSE 0

\* (?:w1\s*cover|w2\s*cover|...) at index p, alternatives tried in order:
\* the index after the match, 0 when none matches.
RECURSIVE KeywordAt(_, _, _)
KeywordAt(s, p, words) ==
    IF words = <<>> THEN 0
    ELSE LET e == WordCoverAt(s, p, Head(words))
         IN IF e # 0 THEN e ELSE KeywordAt(s, p, Tail(words))

\* The optional group (?:\s*[^<\n]*(?:keyword)[^<\n]*)? tried at index k: the
\* index after it, 0 when the group cannot match.  \s* takes a characters and
\* [^<\n]* takes b; both are greedy, so the engine keeps the largest a, and for
\* it the largest b, that lets the keyword match.
OptionalGroupEnd(s, k) ==
    LET maxA == SkipWhile(s, k, Whitespace) - k
        maxB(a) == SkipUntil(s, k + a, {"<", "\n"}) - (k + a)
        splits == UNION {{<<a, b>> : b \in {c \in 0..maxB(a) :
                            KeywordAt(s, k + a + c, price_words) # 0}} :
                         a \in 0..maxA}
    IN IF splits = {} THEN 0
       ELSE LET best == CHOOSE ab \in splits :
                            \A cd \in splits :
                                \/ cd[1] < ab[1]
                                \/ cd[1] = ab[1] /\ cd[2] <= ab[2]
                kwEnd == KeywordAt(s, k + best[1] + best[2], price_words)
            IN SkipUntil(s, kwEnd, {"<", "\n"})

\* The price pattern tried at index i: the index after the match, 0 when it
\* does not match at i.
MatchPriceAt(s, i) ==
    IF i > Len(s) \/ s[i] # Rupee THEN 0
    ELSE LET j == SkipWhile(s, i + 1, Whitespace)
             k == SkipWhile(s, j, Digits \cup {","})
         IN IF k = j THEN 0
            ELSE LET g == OptionalGroupEnd(s, k)
                 IN IF g # 0 THEN g ELSE k

\* re.finditer(price_pattern, s) from index pos on: the matches left to right,
\* non-overlapping, as Python spans [start, end) (0-based).
RECURSIVE finditer_price(_, _)
finditer_price(s, pos) ==
    LET starts == {i \in pos..Len(s) : MatchPriceAt(s, i) # 0}
    IN IF starts = {} THEN <<>>
       ELSE LET b == SetMin(starts)
                e == MatchPriceAt(s, b)
            IN <<[start |-> b - 1, end |-> e - 1]>> \o finditer_price(s, e)

\* re.search(title pattern, context): the text of the leftmost match
\* (keyword, then greedy [^<>]*), None when there is no match.
search_title(context) ==
    LET starts == {p \in 1..Len(context) : KeywordAt(context, p, title_words) # 0}
    IN IF starts = {} THEN None
       ELSE LET b == SetMin(starts)
                e == KeywordAt(context, b, title_words)
            IN SubSeq(context, b, SkipUntil(context, e, {"<", ">"}) - 1)

Max(a, b) == IF a >= b THEN a ELSE b

Min(a, b) == IF a <= b THEN a ELSE b

\* The body of the loop over the matches: the listings of matches[i..].
RECURSIVE listings_of(_, _, _)
listings_of(page_source, matches, i) ==
    IF i > Len(matches) THEN <<>>
    ELSE LET match == matches[i]
             context_start == Max(0, match.start - ContextWindow)
             context_end == Min(Len(page_source), match.end + ContextWindow)
             context == Slice(page_source, context_start, context_end)
             title_match == search_title(context)
             rest == listings_of(page_source, matches, i + 1)
         IN IF title_match # None
            THEN <<[title |-> strip(title_match),
                    price |-> extract_price(Slice(page_source, match.start, match.end)),
                    location |-> NA,
                    date |-> NA,
                    url |-> NA]>> \o rest
            ELSE rest

extract_from_page_source(page_source) ==
    listings_of(page_source, finditer_price(page_source, 1), 1)

----------------------------------------------------------------------------
(* wait_for_listings *)

listing_selectors ==
    <<"[data-aut-id='itemBox']", ".EIR5N", "[data-aut-id='itemTitle']",
      ".rui-38N2G", ".rui-1ykdW", "li[data-aut-id='itemBox']">>

\* Python None where a selector string is expected.
NoSelector == "None"

\* What WebDriverWait(...).until(presence_of_element_located(sel)) does for a
\* selector: returns an element ("found"), raises TimeoutException
\* ("timeout"), or raises another exception ("fault").
WaitOutcomes == {"found", "timeout", "fault"}

\* The loop over the selectors from selector i on; outcomes[i] is what the
\* wait on selector i does when it is run.
RECURSIVE wait_loop(_, _)
wait_loop(outcomes, i) ==
    IF i > Len(listing_selectors) THEN NoSelector
    ELSE CASE outcomes[i] = "found" -> listing_selectors[i]
           [] outcomes[i] = "timeout" -> wait_loop(outcomes, i + 1)
           [] OTHER -> NoSelector

\* The loop going on to the next selector after any exception.
RECURSIVE wait_loop_SkipFaults(_, _)
wait_loop_SkipFaults(outcomes, i) ==
    IF i > Len(listing_selectors) THEN NoSelector
    ELSE IF outcomes[i] = "found" THEN listing_selectors[i]
    ELSE wait_loop_SkipFaults(outcomes, i + 1)

wait_for_listings_SkipFaults(outcomes) == wait_loop_SkipFaults(outcomes, 1)

wait_for_listings(outcomes) == wait_loop(outcomes, 1)

----------------------------------------------------------------------------
(* Inputs *)

\* Listing containers find_elements returns at most.
MaxNodes == 2

\* Elements a listing subtree holds at most.
MaxElems == 3

\* Fragments a page markup is made of at most.
MaxFrags == 4

\* Fragments a title is made of at most.
MaxWords == 3

\* Largest value of document.body.scrollHeight.
MaxHeight == 3

\* All concatenations of at most n of the fragments frs.
RECURSIVE Concats(_, _)
Concats(frs, n) ==
    IF n = 0 THEN {<<>>}
    ELSE LET shorter == Concats(frs, n - 1)
         IN shorter \cup {p \o f : p \in shorter, f \in frs}

\* All sequences of at most n elements of S.
RECURSIVE SeqsUpTo(_, _)
SeqsUpTo(S, n) ==
    IF n = 0 THEN {<<>>}
    ELSE LET shorter == SeqsUpTo(S, n - 1)
         IN shorter \cup {Append(q, x) : q \in shorter, x \in S}

Heights == 0..MaxHeight

ItemHref == <<"/", "i", "t", "e", "m", "/", "1">>

BlankText == <<" ">>

PlainText == <<" ", "a", "b", " ">>

PricedText == <<" ", "Rs", " ", "1", ",", "2", " ">>

\* The texts an element matched by sel may show.
SampleTexts(sel) ==
    IF sel \in Range(price_selectors)
    THEN {BlankText, PlainText, PricedText}
    ELSE {BlankText, PlainText}

\* What find_element may answer for sel when the node holds a match: the
\* anchor selector matches only elements whose href contains '/item/'.
Responses(sel) ==
    {Stale} \cup {Elem(t, IF sel = url_selector THEN ItemHref ELSE <<>>) :
                     t \in SampleTexts(sel)}

ElemCount(node) == Cardinality({sel \in AllSelectors : node[sel].kind # "none"})

CarCoverTitle == <<"C", "a", "r", " ", "C", "o", "v", "e", "r">>

SeatCoverTitle == <<"s", "e", "a", "t", " ", "c", "o", "v", "e", "r", " ", "X">>

FlatTitle == <<"f", "l", "a", "t", " ", "c", "a", "r", " ", "c", "o", "v", "e", "r">>

GoodNode ==
    [EmptyNode EXCEPT !["h2"] = Elem(CarCoverTitle, <<>>),
                      ![".rui-ANJaG"] = Elem(PricedText, <<>>),
                      ![url_selector] = Elem(BlankText, ItemHref)]

SeatNode ==
    [EmptyNode EXCEPT !["[data-aut-id='itemTitle']"] = Elem(SeatCoverTitle, <<>>)]

FlatNode ==
    [EmptyNode EXCEPT !["h3"] = Elem(FlatTitle, <<>>),
                      !["span[class*='date']"] = Elem(PlainText, <<>>)]

StaleNode ==
    [EmptyNode EXCEPT !["h2"] = Elem(CarCoverTitle, <<>>),
                      !["[data-aut-id='item-location']"] = Stale]

\* The listing containers a results page may hold.
SampleNodes == {GoodNode, SeatNode, FlatNode, StaleNode}

Pad == [i \in 1..ContextWindow |-> "x"]

MarkupFragments ==
    {<<Rupee>>, <<"8">>, <<",">>, <<" ">>, <<"C", "a", "r">>, cover,
     <<"s", "e", "a", "t", " ", "c", "o", "v", "e", "r">>, <<"<">>, <<"\n">>, Pad}

\* The page markups the degraded extractor is run on.
Markups == Concats(MarkupFragments, MaxFrags)

\* The page sources a results page without listing containers may have.
SampleMarkups ==
    {<<"<", "p", ">">>,
     <<Rupee, " ", "8", "9", "9", " ">> \o CarCoverTitle \o <<"<">>,
     <<Rupee, "5", " ">> \o CarCoverTitle \o <<" ", "f", "l", "a", "t", "<">>}

TitleFragments ==
    {CarCoverTitle, <<"c", "a", "r", " ", "m", "a", "t">>, <<"c", "a", "r">>,
     <<" ">>, cover, <<"B", "H", "K">>, <<"w", "h", "o", "l", "e">>,
     <<"s", "a", "l", "e">>, <<"x">>}

\* The records the relevance classifier is run on.
TitleRecords ==
    {[title |-> t, price |-> NA, location |-> NA, date |-> NA, url |-> NA] :
        t \in Concats(TitleFragments, MaxWords)}

----------------------------------------------------------------------------
(* scrape_listings *)

max_scrolls == 3

\* scroll_to_load_more: whether the page grew; False when a script call raised.
scroll_to_load_more(last_height, new_height, fault) ==
    IF fault THEN FALSE ELSE new_height > last_height

\* The while condition off by one.
ScrollCondition_OffByOne(attempts) == attempts <= max_scrolls

\* The while condition of the scroll loop.
ScrollCondition(attempts) == attempts < max_scrolls

VARIABLES
    pc,               \* the step scrape_listings is at
    driver,           \* self.driver: "None" or "chrome"
    all_listings,     \* the local all_listings
    listing_selector, \* the local listing_selector
    branch,           \* "none", "located" or "degraded": what the locator led to
    page_source,      \* the local page_source, None before it is read
    pending,          \* the value of a return statement run inside the try
    scroll_attempts,  \* the local scroll_attempts
    scroll_results,   \* what each call of scroll_to_load_more returned
    height,           \* document.body.scrollHeight
    height_changed,   \* whether the page height ever changed
    listing_elements, \* the local listing_elements
    i,                \* the index of the for loop, from 1
    node_results,     \* what extract_listing_data returned for each element
    classify_calls,   \* calls of is_car_cover_listing
    quit_calls,       \* calls of driver.quit
    caught,           \* whether the top-level except clause ran
    retval,           \* the list scrape_listings returned
    input,            \* the argument of a method run on its own
    output,           \* its result
    done              \* whether it has run

orch_vars ==
    <<pc, driver, all_listings, listing_selector, branch, page_source, pending,
      scroll_attempts, scroll_results, height, height_changed, listing_elements,
      i, node_results, classify_calls, quit_calls, caught, retval>>

fn_vars == <<input, output, done>>

vars == <<orch_vars, fn_vars>>

\* A fresh OLXCarCoverScraper on which scrape_listings is about to run.
OrchInit ==
    /\ pc = "setup"
    /\ driver = "None"
    /\ all_listings = <<>>
    /\ listing_selector = NoSelector
    /\ branch = "none"
    /\ page_source = None
    /\ pending = [set |-> FALSE, value |-> <<>>]
    /\ scroll_attempts = 0
    /\ scroll_results = <<>>
    /\ height_changed = FALSE
    /\ listing_elements = <<>>
    /\ i = 1
    /\ node_results = <<>>
    /\ classify_calls = 0
    /\ quit_calls = 0
    /\ caught = FALSE
    /\ retval = <<>>

Init ==
    /\ OrchInit
    /\ height \in Heights
    /\ input = <<>>
    /\ output = <<>>
    /\ done = FALSE

\* The top-level except clause: log, then on to the finally block.
Catch ==
    /\ caught' = TRUE
    /\ pc' = "finally"

\* Line 215: setup_driver; on failure scrape_listings returns [] at once.
SetupDriver ==
    /\ pc = "setup"
    /\ \/ /\ driver' = "chrome"
          /\ pc' = "get"
          /\ UNCHANGED retval
       \/ /\ driver' = driver
          /\ retval' = <<>>
          /\ pc' = "returned"
    /\ UNCHANGED <<all_listings, listing_selector, branch, page_source, pending,
                   scroll_attempts, scroll_results, height, height_changed,
                   listing_elements, i, node_results, classify_calls, quit_calls,
                   caught>>
    /\ UNCHANGED fn_vars

\* Lines 221-225: driver.get, which may raise.
LoadPage ==
    /\ pc = "get"
    /\ \/ pc' = "wait" /\ UNCHANGED caught
       \/ Catch
    /\ UNCHANGED <<driver, all_listings, listing_selector, branch, page_source,
                   pending, scroll_attempts, scroll_results, height,
                   height_changed, listing_elements, i, node_results,
                   classify_calls, quit_calls, retval>>
    /\ UNCHANGED fn_vars

\* Lines 227-229: wait_for_listings and the branch on its result.
WaitForListings ==
    /\ pc = "wait"
    /\ \E outcomes \in [1..Len(listing_selectors) -> WaitOutcomes] :
          /\ listing_selector' = wait_for_listings(outcomes)
          /\ IF listing_selector' = NoSelector
             THEN branch' = "degraded" /\ pc' = "page_source"
             ELSE branch' = "located" /\ pc' = "scroll"
    /\ UNCHANGED <<driver, all_listings, page_source, pending, scroll_attempts,
                   scroll_results, height, height_changed, listing_elements, i,
                   node_results, classify_calls, quit_calls, caught, retval>>
    /\ UNCHANGED fn_vars

\* Line 231: read driver.page_source, which may raise.
ReadPageSource ==
    /\ pc = "page_source"
    /\ \/ /\ page_source' \in SampleMarkups
          /\ pc' = "dump"
          /\ UNCHANGED caught
       \/ /\ Catch
          /\ UNCHANGED page_source
    /\ UNCHANGED <<driver, all_listings, listing_selector, branch, pending,
                   scroll_attempts, scroll_results, height, height_changed,
                   listing_elements, i, node_results, classify_calls, quit_calls,
                   retval>>
    /\ UNCHANGED fn_vars

\* The degraded extraction with the relevance filter applied to its output.
DegradedReturn_Filtered ==
    pending' = [set |-> TRUE,
                value |-> SelectSeq(extract_from_page_source(page_source),
                                    is_car_cover_listing)]

\* The degraded extraction and the return statement of lines 236-237.
DegradedReturn ==
    pending' = [set |-> TRUE, value |-> extract_from_page_source(page_source)]

\* Lines 233-237: write the page source to a file (which may raise), run
\* extract_from_page_source on it and return its listings.
DegradedExtract ==
    /\ pc = "dump"
    /\ \/ /\ DegradedReturn
          /\ pc' = "finally"
          /\ UNCHANGED caught
       \/ /\ Catch
          /\ UNCHANGED pending
    /\ UNCHANGED <<driver, all_listings, listing_selector, branch, page_source,
                   scroll_attempts, scroll_results, height, height_changed,
                   listing_elements, i, node_results, classify_calls, quit_calls,
                   retval>>
    /\ UNCHANGED fn_vars

\* Lines 242-246: one pass of the scroll loop, entered while its condition
\* holds; the loop ends on a scroll that reports no growth or once the
\* condition fails.
ScrollStep ==
    /\ pc = "scroll"
    /\ \E new_height \in Heights, fault \in BOOLEAN :
          LET grew == scroll_to_load_more(height, new_height, fault)
          IN /\ height' = new_height
             /\ height_changed' = (height_changed \/ new_height # height)
             /\ scroll_results' = Append(scroll_results, grew)
             /\ IF grew
                THEN /\ scroll_attempts' = scroll_attempts + 1
                     /\ pc' = IF ScrollCondition(scroll_attempts')
                              THEN "scroll" ELSE "find_elements"
                ELSE /\ scroll_attempts' = scroll_attempts
                     /\ pc' = "find_elements"
    /\ UNCHANGED <<driver, all_listings, listing_selector, branch, page_source,
                   pending, listing_elements, i, node_results, classify_calls,
                   quit_calls, caught, retval>>
    /\ UNCHANGED fn_vars

\* Lines 248-251: find_elements, which may raise; an empty list ends the loop.
FindElements ==
    /\ pc = "find_elements"
    /\ \/ /\ listing_elements' \in SeqsUpTo(SampleNodes, MaxNodes)
          /\ pc' = IF listing_elements' = <<>> THEN "finally" ELSE "loop"
          /\ UNCHANGED caught
       \/ /\ Catch
          /\ UNCHANGED listing_elements
    /\ UNCHANGED <<driver, all_listings, listing_selector, branch, page_source,
                   pending, scroll_attempts, scroll_results, height,
                   height_changed, i, node_results, classify_calls, quit_calls,
                   retval>>
    /\ UNCHANGED fn_vars

\* The for loop giving up the batch at the first listing that yields None.
ProcessListing_AbortOnFailure ==
    /\ pc = "loop"
    /\ LET listing_data == extract_listing_data(listing_elements[i])
       IN /\ node_results' = Append(node_results, listing_data)
          /\ IF listing_data # NoneRecord
             THEN /\ classify_calls' = classify_calls + 1
                  /\ all_listings' =
                        IF is_car_cover_listing(listing_data)
                        THEN Append(all_listings, listing_data)
                        ELSE all_listings
                  /\ pc' = IF i + 1 > Len(listing_elements) THEN "finally" ELSE "loop"
             ELSE /\ UNCHANGED <<classify_calls, all_listings>>
                  /\ pc' = "finally"
    /\ i' = i + 1
    /\ UNCHANGED <<driver, listing_selector, branch, page_source, pending,
                   scroll_attempts, scroll_results, height, height_changed,
                   listing_elements, quit_calls, caught, retval>>
    /\ UNCHANGED fn_vars

\* Lines 251-260: one pass of the for loop over the listing elements.
\* extract_listing_data catches what the node raises and is_car_cover_listing
\* raises nothing on its records, so the handler of lines 258-260 never runs.
ProcessListing ==
    /\ pc = "loop"
    /\ LET listing_data == extract_listing_data(listing_elements[i])
       IN /\ node_results' = Append(node_results, listing_data)
          /\ IF listing_data # NoneRecord
             THEN /\ classify_calls' = classify_calls + 1
                  /\ all_listings' =
                        IF is_car_cover_listing(listing_data)
                        THEN Append(all_listings, listing_data)
                        ELSE all_listings
             ELSE UNCHANGED <<classify_calls, all_listings>>
    /\ i' = i + 1
    /\ pc' = IF i' > Len(listing_elements) THEN "finally" ELSE "loop"
    /\ UNCHANGED <<driver, listing_selector, branch, page_source, pending,
                   scroll_attempts, scroll_results, height, height_changed,
                   listing_elements, quit_calls, caught, retval>>
    /\ UNCHANGED fn_vars

\* The early return leaving before the browser is closed.
Finally_SkipQuitOnReturn ==
    /\ pc = "finally"
    /\ IF driver # "None" /\ ~pending.set
       THEN /\ quit_calls' = quit_calls + 1
            /\ \/ /\ pc' = "returned"
                  /\ retval' = all_listings
               \/ /\ pc' = "raised"
                  /\ UNCHANGED retval
       ELSE /\ UNCHANGED quit_calls
            /\ pc' = "returned"
            /\ retval' = IF pending.set THEN pending.value ELSE all_listings
    /\ UNCHANGED <<driver, all_listings, listing_selector, branch, page_source,
                   pending, scroll_attempts, scroll_results, height,
                   height_changed, listing_elements, i, node_results,
                   classify_calls, caught>>
    /\ UNCHANGED fn_vars

\* Lines 267-271: the finally block, then the pending return or the final
\* return all_listings; an exception raised by driver.quit leaves the call.
Finally ==
    /\ pc = "finally"
    /\ IF driver # "None"
       THEN /\ quit_calls' = quit_calls + 1
            /\ \/ /\ pc' = "returned"
                  /\ retval' = IF pending.set THEN pending.value ELSE all_listings
               \/ /\ pc' = "raised"
                  /\ UNCHANGED retval
       ELSE /\ UNCHANGED quit_calls
            /\ pc' = "returned"
            /\ retval' = IF pending.set THEN pending.value ELSE all_listings
    /\ UNCHANGED <<driver, all_listings, listing_selector, branch, page_source,
                   pending, scroll_attempts, scroll_results, height,
                   height_changed, listing_elements, i, node_results,
                   classify_calls, caught>>
    /\ UNCHANGED fn_vars

Next ==
    \/ SetupDriver
    \/ LoadPage
    \/ WaitForListings
    \/ ReadPageSource
    \/ DegradedExtract
    \/ ScrollStep
    \/ FindElements
    \/ ProcessListing
    \/ Finally

Spec == Init /\ [][Next]_vars

----------------------------------------------------------------------------
(* The methods run on their own *)

OrchIdle == OrchInit /\ height = 0

\* is_car_cover_listing on a record.
InitClassify ==
    /\ OrchIdle
    /\ input \in TitleRecords
    /\ output = FALSE
    /\ done = FALSE

Classify ==
    /\ ~done
    /\ output' = is_car_cover_listing(input)
    /\ done' = TRUE
    /\ UNCHANGED <<input, orch_vars>>

SpecClassify == InitClassify /\ [][Classify]_vars

\* wait_for_listings on a page, given what each presence wait does.
InitLocator ==
    /\ OrchIdle
    /\ input \in [1..Len(listing_selectors) -> WaitOutcomes]
    /\ output = NoSelector
    /\ done = FALSE

Locate ==
    /\ ~done
    /\ output' = wait_for_listings(input)
    /\ done' = TRUE
    /\ UNCHANGED <<input, orch_vars>>

SpecLocator == InitLocator /\ [][Locate]_vars

\* extract_from_page_source on a markup string.
InitDegraded ==
    /\ OrchIdle
    /\ input \in Markups
    /\ output = <<>>
    /\ done = FALSE

Salvage ==
    /\ ~done
    /\ output' = extract_from_page_source(input)
    /\ done' = TRUE
    /\ UNCHANGED <<input, orch_vars>>

SpecDegraded == InitDegraded /\ [][Salvage]_vars

\* extract_listing_data on a listing subtree: the page renders elements into
\* the subtree, and the extractor runs on what is there.
InitExtract ==
    /\ OrchIdle
    /\ input = EmptyNode
    /\ output = NoneRecord
    /\ done = FALSE

RenderElement ==
    /\ ~done
    /\ ElemCount(input) < MaxElems
    /\ \E sel \in AllSelectors :
          /\ input[sel].kind = "none"
          /\ \E r \in Responses(sel) : input' = [input EXCEPT ![sel] = r]
    /\ UNCHANGED <<output, done, orch_vars>>

ExtractListing ==
    /\ ~done
    /\ output' = extract_listing_data(input)
    /\ done' = TRUE
    /\ UNCHANGED <<input, orch_vars>>

NextExtract == RenderElement \/ ExtractListing

SpecExtract == InitExtract /\ [][NextExtract]_vars

----------------------------------------------------------------------------
(* Properties *)

Keys == {"title", "price", "location", "date", "url"}

AllDigits(s) == \A k \in 1..Len(s) : s[k] \in Digits

\* Neither null nor empty, and with no whitespace at either end.
WellFormedValue(v) == v # None /\ v # <<>> /\ strip(v) = v

\* kw occurs in t: t is some prefix, then kw, then some suffix.
Occurs(kw, t) ==
    \E a \in 0..Len(t) :
        /\ a + Len(kw) <= Len(t)
        /\ \A k \in 1..Len(kw) : t[a + k] = kw[k]

\* C1: whichever step of scrape_listings faults, no exception reaches the
\* caller, and a call in which the top-level handler caught a fault returns
\* the empty list.
C1_NoExceptionEscapes ==
    /\ pc # "raised"
    /\ (pc = "returned" /\ caught) => retval = <<>>

\* C2: once scrape_listings has finished with a browser session acquired,
\* driver.quit has been called, on every exit path.
C2_SessionClosed ==
    (pc \in {"returned", "raised"} /\ driver # "None") => quit_calls >= 1

\* The degraded branch returned early and the browser was closed on the way.
C2_Witness ==
    /\ pc = "returned"
    /\ driver # "None"
    /\ pending.set
    /\ quit_calls = 1

\* C3: every non-null record of extract_listing_data has exactly the five
\* keys, each value is a non-empty trimmed string (the sentinel 'N/A'
\* included), never null, and a price other than 'N/A' is digits only.
C3_RecordWellFormed ==
    (done /\ output # NoneRecord) =>
        /\ DOMAIN output = Keys
        /\ \A k \in Keys : WellFormedValue(output[k])
        /\ output.price # NA => AllDigits(output.price)

\* A record whose title chain found only a blank element, with a price and a
\* url found.
C3_Witness ==
    /\ done
    /\ output # NoneRecord
    /\ input["h2"].kind = "elem"
    /\ output.title = NA
    /\ output.price \notin {NA, None}
    /\ output.url = ItemHref

\* The matches of the price pattern in the markup, as texts.
PriceMatchTexts(markup) ==
    {Slice(markup, m.start, m.end) : m \in Range(finditer_price(markup, 1))}

\* C4: every listing extract_from_page_source emits has the five keys,
\* location, date and url 'N/A', a non-empty title, and as price the
\* normalised text of a price match: a digits-only string, never null and
\* never empty.
C4_ListingInvariant ==
    done =>
        \A k \in 1..Len(output) :
            /\ DOMAIN output[k] = Keys
            /\ output[k].location = NA
            /\ output[k].date = NA
            /\ output[k].url = NA
            /\ WellFormedValue(output[k].title)
            /\ output[k].price \in {extract_price(t) : t \in PriceMatchTexts(input)}
            /\ output[k].price # None
            /\ output[k].price # <<>>
            /\ AllDigits(output[k].price)

\* The selectors whose wait finds an element when it is run.
Matching == {k \in 1..Len(listing_selectors) : input[k] = "found"}

\* The selectors whose wait finds an element after every earlier wait timed out.
Reached == {k \in Matching : \A j \in 1..(k - 1) : input[j] = "timeout"}

\* C5 as stated: wait_for_listings returns the first matching selector, and
\* null if and only if none of the six selectors matches.
C5_NullIffNoneMatches ==
    done =>
        /\ output = NoSelector <=> Matching = {}
        /\ Matching # {} => output = listing_selectors[SetMin(Matching)]

\* C5: wait_for_listings returns the first selector whose wait succeeds after
\* every earlier wait timed out, and null if and only if there is none: all
\* six waits time out, or a wait fails otherwise before any has succeeded.
C5_NullIffNoneReached ==
    done =>
        /\ output = NoSelector <=> Reached = {}
        /\ Reached # {} => output = listing_selectors[SetMin(Reached)]

\* The first wait timed out and the second found an element.
C5_Witness ==
    /\ done
    /\ input[1] = "timeout"
    /\ input[2] = "found"
    /\ output = listing_selectors[2]

\* C6: the scroll loop makes at most 3 scroll attempts, goes on only after an
\* attempt that grew the page, ends at the first attempt without growth or
\* after the third, and makes exactly one attempt on a page whose height
\* never changes.
C6_ScrollBound ==
    LET n == Len(scroll_results)
    IN /\ n <= max_scrolls
       /\ \A k \in 1..(n - 1) : scroll_results[k]
       /\ pc = "scroll" => \A k \in 1..n : scroll_results[k]
       /\ (branch = "located" /\ pc # "scroll") =>
             /\ n >= 1
             /\ ~scroll_results[n] \/ n = max_scrolls
             /\ ~height_changed => n = 1

\* The loop is over on a page whose height never changed.
C6_Witness ==
    /\ branch = "located"
    /\ pc = "find_elements"
    /\ ~height_changed
    /\ Len(scroll_results) = 1

\* C7: is_car_cover_listing is true exactly when the lower-cased title
\* contains a target keyword and no exclusion keyword.
C7_Relevance ==
    done =>
        LET title == lower(input.title)
            hasTarget == \E k \in DOMAIN car_cover_keywords :
                            Occurs(car_cover_keywords[k], title)
            hasExclusion == \E k \in DOMAIN exclude_keywords :
                               Occurs(exclude_keywords[k], title)
        IN output = (hasTarget /\ ~hasExclusion)

\* A capitalised target keyword together with an exclusion keyword: rejected.
C7_Witness ==
    /\ done
    /\ input.title = CarCoverTitle \o <<" ">> \o <<"s", "a", "l", "e">>
    /\ output = FALSE

\* The records of the relevant listings among the elements, in their order.
RelevantRecords(elements) ==
    SelectSeq([k \in 1..Len(elements) |-> extract_listing_data(elements[k])],
              LAMBDA r : r # NoneRecord /\ is_car_cover_listing(r))

\* C8: with the containers located and no fault caught at the top level, the
\* returned list is, in container order, the records of the elements whose
\* extraction gave a record that the classifier accepted, and every element
\* was processed.
C8_ResultInOrder ==
    (pc = "returned" /\ branch = "located" /\ ~caught) =>
        /\ retval = RelevantRecords(listing_elements)
        /\ Len(node_results) = Len(listing_elements)

\* The first element failed to extract and the second was still returned.
C8_Witness ==
    /\ pc = "returned"
    /\ branch = "located"
    /\ ~caught
    /\ Len(listing_elements) = 2
    /\ node_results[1] = NoneRecord
    /\ Len(retval) = 1

\* C9 as stated: when wait_for_listings returned null, scrape_listings
\* scrolls nothing, extracts and classifies nothing, and returns the output
\* of extract_from_page_source on the page markup (taken here for the runs
\* in which the page markup was read).
C9_DegradedReturnsSalvage ==
    (pc = "returned" /\ branch = "degraded" /\ page_source # None) =>
        /\ scroll_results = <<>>
        /\ node_results = <<>>
        /\ classify_calls = 0
        /\ retval = extract_from_page_source(page_source)

\* C9: when wait_for_listings returned null, scrape_listings scrolls nothing,
\* extracts and classifies nothing, and what it returns is the unfiltered
\* output of extract_from_page_source on the page markup, or the empty list
\* when reading or saving the page source faulted.
C9_DegradedBranch ==
    branch = "degraded" =>
        /\ scroll_results = <<>>
        /\ node_results = <<>>
        /\ classify_calls = 0
        /\ pc = "returned" =>
              IF caught THEN retval = <<>>
              ELSE /\ page_source # None
                   /\ retval = extract_from_page_source(page_source)

\* The degraded branch returned a listing the classifier would reject.
C9_Witness ==
    /\ pc = "returned"
    /\ branch = "degraded"
    /\ retval # <<>>
    /\ ~is_car_cover_listing(retval[1])

\* An element with non-empty trimmed text.
HasText(found) == found.kind = "elem" /\ strip(found.text) # <<>>

\* An element whose text normalises to a price.
HasPrice(found) == found.kind = "elem" /\ extract_price(found.text) # None

\* The first selector of a chain whose element is good, 0 when there is none.
FirstGood(node, selectors, Good(_)) ==
    LET good == {k \in 1..Len(selectors) : Good(node[selectors[k]])}
    IN IF good = {} THEN 0 ELSE SetMin(good)

\* The selectors a chain consults: up to the first good one, all when none is.
Consulted(node, selectors, Good(_)) ==
    LET w == FirstGood(node, selectors, Good)
    IN 1..(IF w = 0 THEN Len(selectors) ELSE w)

\* A consulted selector of the chain raises.
ChainFaults(node, selectors, Good(_)) ==
    \E k \in Consulted(node, selectors, Good) : node[selectors[k]].kind = "stale"

ExpectedText(node, selectors) ==
    LET w == FirstGood(node, selectors, HasText)
    IN IF w = 0 THEN NA ELSE strip(node[selectors[w]].text)

ExpectedPrice(node, selectors) ==
    LET w == FirstGood(node, selectors, HasPrice)
    IN IF w = 0 THEN NA ELSE extract_price(node[selectors[w]].text)

\* C10: title, location and date are the trimmed text of the first selector
\* of their chain that matches an element with non-empty trimmed text, price
\* is the normalised text of the first selector whose text normalises to a
\* non-null price, and each is 'N/A' exactly when its chain has none; the
\* selectors after the winning one are not consulted, so the record is null
\* only when a selector up to the winning one (or the url lookup) raises.
C10_FirstNonEmptyWins ==
    done =>
        /\ output = NoneRecord <=>
              \/ ChainFaults(input, title_selectors, HasText)
              \/ ChainFaults(input, price_selectors, HasPrice)
              \/ ChainFaults(input, location_selectors, HasText)
              \/ ChainFaults(input, date_selectors, HasText)
              \/ input[url_selector].kind = "stale"
        /\ output # NoneRecord =>
              /\ output.title = ExpectedText(input, title_selectors)
              /\ output.price = ExpectedPrice(input, price_selectors)
              /\ output.location = ExpectedText(input, location_selectors)
              /\ output.date = ExpectedText(input, date_selectors)
              /\ output.title = NA <=> FirstGood(input, title_selectors, HasText) = 0
              /\ output.price = NA <=> FirstGood(input, price_selectors, HasPrice) = 0

\* The first title selector matched a blank element and was passed over, the
\* second gave the title, and the third, which would raise, was not consulted.
C10_Witness ==
    /\ done
    /\ input[title_selectors[1]] = Elem(BlankText, <<>>)
    /\ input[title_selectors[2]] = Elem(PlainText, <<>>)
    /\ input[title_selectors[3]] = Stale
    /\ output # NoneRecord
    /\ output.title = <<"a", "b">>

====
